---- MODULE Spec2Model ----
(***************************************************************************)
(* A model of oauth2_provider/models.py: the four stored entities          *)
(* (Application, Grant, AccessToken, RefreshToken), the constraints their  *)
(* field declarations put on the store, and the model methods.             *)
(*                                                                         *)
(* A Python str is a sequence of one-character strings, so that split()    *)
(* and rstrip("/") are computed and not assumed.  A table is the set of    *)
(* its rows; a row is a record carrying its primary key "id".  The user    *)
(* and application foreign keys of Grant, AccessToken and RefreshToken     *)
(* take part in no method of the file and are left out of the rows.        *)
(***************************************************************************)
EXTENDS Integers, Sequences, FiniteSets, Bags, TLC

VARIABLES
    applications,    \* rows of Application
    grants,          \* rows of Grant
    access_tokens,   \* rows of AccessToken
    refresh_tokens,  \* rows of RefreshToken
    next_pk,         \* next auto-increment primary key of each table
    now,             \* timezone.now()
    last,            \* the last call and what it returned or raised
    exchanged,       \* history: bag of the Grant rows returned by a successful exchange
    expired_seen,    \* history: ids of the Grants an exchange reported expired
    minted           \* history: one record per successful refresh

vars == <<applications, grants, access_tokens, refresh_tokens, next_pk, now,
          last, exchanged, expired_seen, minted>>

-----------------------------------------------------------------------------
(* Bounds *)

MaxUriLen == 3       \* length of a presented or stored single URI
MaxListLen == 3      \* length of a stored redirect_uris text
MaxScopeLen == 3     \* length of a stored scope text
MaxRequest == 2      \* number of scopes in one request
MaxTime == 3         \* the clock runs 0..MaxTime
MaxRows == 2         \* rows ever inserted in Application and in Grant
MaxTokens == 2       \* rows ever inserted in AccessToken and in RefreshToken

-----------------------------------------------------------------------------
(* Python strings *)

Letters == {"a", "b"}
Space == " "
Slash == "/"
UriChars == Letters \cup {Slash}
ScopeChars == {"r", "w"}

StringsUpTo(chars, n) == UNION {[1..k -> chars] : k \in 0..n}

\* str.rstrip(c): every trailing c is removed, not only one.
RECURSIVE rstrip(_, _)
rstrip(s, c) ==
    IF Len(s) > 0 /\ s[Len(s)] = c
    THEN rstrip(SubSeq(s, 1, Len(s) - 1), c)
    ELSE s

\* str.split(): the maximal runs of non-whitespace characters, in order.
RECURSIVE SplitFrom(_, _, _, _)
SplitFrom(s, i, word, out) ==
    IF i > Len(s)
    THEN IF word = <<>> THEN out ELSE Append(out, word)
    ELSE IF s[i] = Space
         THEN SplitFrom(s, i + 1, <<>>, IF word = <<>> THEN out ELSE Append(out, word))
         ELSE SplitFrom(s, i + 1, Append(word, s[i]), out)

split(s) == SplitFrom(s, 1, <<>>, <<>>)

\* "x in list"
InList(x, list) == \E i \in 1..Len(list) : list[i] = x

\* set(list)
ToSet(list) == {list[i] : i \in 1..Len(list)}

-----------------------------------------------------------------------------
(* Application *)

default_redirect_uri_last(app) ==
    LET list == split(app.redirect_uris)
    IN  IF Len(list) = 0
        THEN [raised |-> "IndexError", value |-> <<>>]
        ELSE [raised |-> "", value |-> list[Len(list)]]

\* Application.default_redirect_uri: split().pop(0); pop on an empty list
\* raises IndexError.
default_redirect_uri(app) ==
    LET list == split(app.redirect_uris)
    IN  IF Len(list) = 0
        THEN [raised |-> "IndexError", value |-> <<>>]
        ELSE [raised |-> "", value |-> Head(list)]

Application_redirect_uri_allowed_prefix(app, uri) ==
    LET stripped == rstrip(uri, Slash)
        list == split(app.redirect_uris)
    IN  \E i \in 1..Len(list) :
            /\ Len(list[i]) <= Len(stripped)
            /\ SubSeq(stripped, 1, Len(list[i])) = list[i]

\* Application.redirect_uri_allowed
Application_redirect_uri_allowed(app, uri) ==
    LET stripped == rstrip(uri, Slash)
    IN  InList(stripped, split(app.redirect_uris))

-----------------------------------------------------------------------------
(* Grant *)

\* expires = models.DateTimeField(null=True): the stored NULL
None == -1

Grant_is_expired_exclusive(grant, t) ==
    IF grant.expires = None THEN "TypeError"
    ELSE IF t > grant.expires THEN "True" ELSE "False"

\* Grant.is_expired: timezone.now() >= self.expires; comparing a datetime
\* with None raises TypeError.
Grant_is_expired(grant, t) ==
    IF grant.expires = None THEN "TypeError"
    ELSE IF t >= grant.expires THEN "True" ELSE "False"

Grant_redirect_uri_allowed_presented(grant, uri) ==
    rstrip(uri, Slash) = grant.redirect_uri

\* Grant.redirect_uri_allowed
Grant_redirect_uri_allowed(grant, uri) ==
    uri = rstrip(grant.redirect_uri, Slash)

-----------------------------------------------------------------------------
(* AccessToken *)

\* A scopes argument: None (given = FALSE) or a list of scope names.
NoScopes == [given |-> FALSE, list |-> <<>>]
ScopeList(l) == [given |-> TRUE, list |-> l]

\* AccessToken.is_exired
is_exired(token, t) == t >= token.expires

allow_scopes_any(token, scopes) ==
    IF ~scopes.given \/ Len(scopes.list) = 0
    THEN TRUE
    ELSE ToSet(scopes.list) \cap ToSet(split(token.scope)) # {}

\* AccessToken.allow_scopes
allow_scopes(token, scopes) ==
    IF ~scopes.given \/ Len(scopes.list) = 0
    THEN TRUE
    ELSE LET provided_scopes == ToSet(split(token.scope))
             resource_scopes == ToSet(scopes.list)
         IN  resource_scopes \subseteq provided_scopes

\* AccessToken.is_valid
is_valid(token, scopes, t) == ~is_exired(token, t) /\ allow_scopes(token, scopes)

-----------------------------------------------------------------------------
(* The store: what the field declarations make an INSERT or a DELETE do *)

\* client_id = CharField(unique=True): an INSERT repeating a stored
\* client_id raises IntegrityError.
client_id_accepted(client_id) ==
    \A a \in applications : a.client_id # client_id

\* Grant.code = CharField(max_length=255): no unique constraint.
code_accepted(code) == TRUE

\* AccessToken.token = CharField(max_length=255): no unique constraint.
access_token_token_accepted(token) == TRUE

\* RefreshToken.token = CharField(max_length=255): no unique constraint.
refresh_token_token_accepted(token) == TRUE

\* The foreign key of RefreshToken.access_token: the row referred to exists.
access_token_exists(at_id) == \E a \in access_tokens : a.id = at_id

access_token_unbound_always(at_id) == TRUE

\* The unique constraint of OneToOneField(AccessToken): no other
\* RefreshToken refers to the same AccessToken.
access_token_unbound(at_id) ==
    \A r \in refresh_tokens : r.access_token # at_id

cascade_nothing(token) == {}

\* OneToOneField(AccessToken) with the default on_delete (CASCADE): the
\* RefreshToken rows deleted together with an AccessToken row.
cascade(token) == {r \in refresh_tokens : r.access_token = token.id}

-----------------------------------------------------------------------------
(* Inputs *)

ClientIds == {"c1", "c2"}
Codes == {"g1", "g2"}
Tokens == {"t1", "t2"}
TTLs == {1, 2}
UriStrings == StringsUpTo(UriChars, MaxUriLen)
ListStrings == StringsUpTo(UriChars \cup {Space}, MaxListLen)
ScopeStrings == StringsUpTo(ScopeChars \cup {Space}, MaxScopeLen)
ScopeNames == {<<"r">>, <<"w">>, <<"r", "w">>}
Requests == {NoScopes} \cup {ScopeList(l) : l \in StringsUpTo(ScopeNames, MaxRequest)}
\* the values used where the text itself is not what is examined
RegisteredLists == {<<"a">>}
GrantUris == {<<"a">>}
PresentedUris == {<<"a">>, <<"a", Slash>>}
TokenScopes == {<<"r">>}
TokenRequests == {NoScopes, ScopeList(<< <<"w">> >>)}

NoGrant == [id |-> 0]
Ids(table) == {row.id : row \in table}

-----------------------------------------------------------------------------
(* Initial states *)

NoHistory ==
    /\ last = [op |-> "init"]
    /\ exchanged = EmptyBag
    /\ expired_seen = {}
    /\ minted = {}

FirstKeys(a, g, t, r) ==
    next_pk = [application |-> a, grant |-> g, access_token |-> t, refresh_token |-> r]

\* The empty database.
Init ==
    /\ applications = {}
    /\ grants = {}
    /\ access_tokens = {}
    /\ refresh_tokens = {}
    /\ FirstKeys(1, 1, 1, 1)
    /\ now = 0
    /\ NoHistory

\* What validate_uris looks at first: a URI starts with its scheme.
StartsWithLetter(uri) == Len(uri) >= 1 /\ uri[1] \in Letters

\* a redirect_uris text with entries, each starting as a URI does
Validated(text) ==
    /\ Len(split(text)) >= 1
    /\ \A i \in 1..Len(split(text)) : StartsWithLetter(split(text)[i])

StoredApplication(text) ==
    /\ applications = {[id |-> 1, client_id |-> "c1", redirect_uris |-> text]}
    /\ grants = {}
    /\ access_tokens = {}
    /\ refresh_tokens = {}
    /\ FirstKeys(2, 1, 1, 1)
    /\ now = 0
    /\ NoHistory

\* One stored Application with any redirect_uris text: the texts the form
\* validation lets through, and the others, which save() stores as well.
InitApplication ==
    \/ \E s \in {t \in ListStrings : Validated(t)} : StoredApplication(s)
    \/ \E s \in {t \in ListStrings : ~Validated(t)} : StoredApplication(s)

StoredGrant(uri) ==
    /\ applications = {}
    /\ grants = {[id |-> 1, code |-> "g1", expires |-> 1, redirect_uri |-> uri]}
    /\ access_tokens = {}
    /\ refresh_tokens = {}
    /\ FirstKeys(1, 2, 1, 1)
    /\ now = 0
    /\ NoHistory

\* One stored Grant with any redirect_uri: those that start as a URI does,
\* and the others, which save() stores as well.
InitGrant ==
    \/ \E s \in {t \in UriStrings : StartsWithLetter(t)} : StoredGrant(s)
    \/ \E s \in {t \in UriStrings : ~StartsWithLetter(t)} : StoredGrant(s)

\* One stored AccessToken with any scope text and any expiry.
InitAccessToken ==
    /\ applications = {}
    /\ grants = {}
    /\ \E s \in ScopeStrings, e \in 1..MaxTime :
         access_tokens = {[id |-> 1, token |-> "t1", expires |-> e, scope |-> s]}
    /\ refresh_tokens = {}
    /\ FirstKeys(1, 1, 2, 1)
    /\ now = 0
    /\ NoHistory

-----------------------------------------------------------------------------
(* The clock *)

Tick ==
    /\ now < MaxTime
    /\ now' = now + 1
    /\ last' = [op |-> "tick"]
    /\ UNCHANGED <<applications, grants, access_tokens, refresh_tokens, next_pk,
                   exchanged, expired_seen, minted>>

-----------------------------------------------------------------------------
(* Calls of the model methods *)

CallDefaultRedirectUri(app) ==
    /\ last' = [op |-> "default_redirect_uri", app |-> app,
                outcome |-> default_redirect_uri(app)]
    /\ UNCHANGED <<applications, grants, access_tokens, refresh_tokens, next_pk,
                   now, exchanged, expired_seen, minted>>

CallApplicationRedirectUriAllowed(app, uri) ==
    /\ last' = [op |-> "Application.redirect_uri_allowed", app |-> app, uri |-> uri,
                result |-> Application_redirect_uri_allowed(app, uri)]
    /\ UNCHANGED <<applications, grants, access_tokens, refresh_tokens, next_pk,
                   now, exchanged, expired_seen, minted>>

CallGrantRedirectUriAllowed(grant, uri) ==
    /\ last' = [op |-> "Grant.redirect_uri_allowed", grant |-> grant, uri |-> uri,
                result |-> Grant_redirect_uri_allowed(grant, uri)]
    /\ UNCHANGED <<applications, grants, access_tokens, refresh_tokens, next_pk,
                   now, exchanged, expired_seen, minted>>

CallIsValid(token, scopes) ==
    /\ last' = [op |-> "is_valid", token |-> token, scopes |-> scopes,
                result |-> is_valid(token, scopes, now)]
    /\ UNCHANGED <<applications, grants, access_tokens, refresh_tokens, next_pk,
                   now, exchanged, expired_seen, minted>>

NextApplication ==
    \/ \E app \in applications : CallDefaultRedirectUri(app)
    \/ \E app \in applications, uri \in UriStrings :
            CallApplicationRedirectUriAllowed(app, uri)

NextGrant ==
    \E grant \in grants, uri \in UriStrings : CallGrantRedirectUriAllowed(grant, uri)

NextAccessToken ==
    \/ Tick
    \/ \E token \in access_tokens, scopes \in Requests : CallIsValid(token, scopes)

SpecApplication == InitApplication /\ [][NextApplication]_vars
SpecGrant == InitGrant /\ [][NextGrant]_vars
SpecAccessToken == InitAccessToken /\ [][NextAccessToken]_vars

-----------------------------------------------------------------------------
(* Writes of Application and Grant rows *)

\* Application(...).save(): the INSERT, refused when client_id is stored already.
CreateApplication(client_id, redirect_uris) ==
    /\ next_pk.application <= MaxRows
    /\ IF client_id_accepted(client_id)
       THEN /\ applications' = applications \cup
                   {[id |-> next_pk.application, client_id |-> client_id,
                     redirect_uris |-> redirect_uris]}
            /\ next_pk' = [next_pk EXCEPT !.application = @ + 1]
            /\ last' = [op |-> "Application.save", client_id |-> client_id, raised |-> ""]
       ELSE /\ UNCHANGED <<applications, next_pk>>
            /\ last' = [op |-> "Application.save", client_id |-> client_id,
                        raised |-> "IntegrityError"]
    /\ UNCHANGED <<grants, access_tokens, refresh_tokens, now, exchanged,
                   expired_seen, minted>>

\* Grant(...).save(): the INSERT; expires is NULL or a time after now.
CreateGrant(code, redirect_uri, expires) ==
    /\ next_pk.grant <= MaxRows
    /\ IF code_accepted(code)
       THEN /\ grants' = grants \cup
                   {[id |-> next_pk.grant, code |-> code, expires |-> expires,
                     redirect_uri |-> redirect_uri]}
            /\ next_pk' = [next_pk EXCEPT !.grant = @ + 1]
            /\ last' = [op |-> "Grant.save", code |-> code, raised |-> ""]
       ELSE /\ UNCHANGED <<grants, next_pk>>
            /\ last' = [op |-> "Grant.save", code |-> code, raised |-> "IntegrityError"]
    /\ UNCHANGED <<applications, access_tokens, refresh_tokens, now, exchanged,
                   expired_seen, minted>>

-----------------------------------------------------------------------------
(* Grant exchange *)

\* What exchange answers for the Grant row it found.
ExchangeResult(grant, uri) ==
    LET expired == Grant_is_expired(grant, now)
    IN  IF expired = "TypeError" THEN "TypeError"
        ELSE IF expired = "True" THEN "GrantExpired"
        ELSE IF ~Grant_redirect_uri_allowed(grant, uri) THEN "RedirectURIMismatch"
        ELSE "ok"

ExchangeWithoutConsume(code, uri) ==
    LET found == {g \in grants : g.code = code}
    IN  /\ IF found = {}
           THEN /\ last' = [op |-> "exchange", code |-> code, uri |-> uri,
                            grant |-> NoGrant, result |-> "GrantNotFound"]
                /\ UNCHANGED <<grants, exchanged, expired_seen>>
           ELSE \E g \in found :
                /\ last' = [op |-> "exchange", code |-> code, uri |-> uri, grant |-> g,
                            result |-> ExchangeResult(g, uri)]
                /\ grants' = grants
                /\ exchanged' = IF ExchangeResult(g, uri) = "ok"
                                THEN exchanged (+) SetToBag({g}) ELSE exchanged
                /\ expired_seen' = IF ExchangeResult(g, uri) = "GrantExpired"
                                   THEN expired_seen \cup {g.id} ELSE expired_seen
        /\ UNCHANGED <<applications, access_tokens, refresh_tokens, next_pk, now, minted>>

\* exchange(code, redirect_uri) with consume(grant), one step of the store:
\* look the code up, check expiry, check the redirect uri, delete the row.
Exchange(code, uri) ==
    LET found == {g \in grants : g.code = code}
    IN  /\ IF found = {}
           THEN /\ last' = [op |-> "exchange", code |-> code, uri |-> uri,
                            grant |-> NoGrant, result |-> "GrantNotFound"]
                /\ UNCHANGED <<grants, exchanged, expired_seen>>
           ELSE \E g \in found :
                /\ last' = [op |-> "exchange", code |-> code, uri |-> uri, grant |-> g,
                            result |-> ExchangeResult(g, uri)]
                /\ grants' = IF ExchangeResult(g, uri) = "ok"
                             THEN grants \ {g} ELSE grants
                /\ exchanged' = IF ExchangeResult(g, uri) = "ok"
                                THEN exchanged (+) SetToBag({g}) ELSE exchanged
                /\ expired_seen' = IF ExchangeResult(g, uri) = "GrantExpired"
                                   THEN expired_seen \cup {g.id} ELSE expired_seen
        /\ UNCHANGED <<applications, access_tokens, refresh_tokens, next_pk, now, minted>>

Next ==
    \/ Tick
    \/ \E c \in ClientIds, l \in RegisteredLists : CreateApplication(c, l)
    \/ \E c \in Codes, u \in GrantUris, e \in {None} \cup {now + ttl : ttl \in TTLs} :
            CreateGrant(c, u, e)
    \/ \E c \in Codes, u \in PresentedUris : Exchange(c, u)

Spec == Init /\ [][Next]_vars

-----------------------------------------------------------------------------
(* AccessToken and RefreshToken rows *)

\* AccessToken(...).save(): the INSERT, expires = now + ttl.
CreateAccessToken(token, ttl, scope) ==
    /\ next_pk.access_token <= MaxTokens
    /\ IF access_token_token_accepted(token)
       THEN /\ access_tokens' = access_tokens \cup
                   {[id |-> next_pk.access_token, token |-> token,
                     expires |-> now + ttl, scope |-> scope]}
            /\ next_pk' = [next_pk EXCEPT !.access_token = @ + 1]
            /\ last' = [op |-> "AccessToken.save", token |-> token, raised |-> ""]
       ELSE /\ UNCHANGED <<access_tokens, next_pk>>
            /\ last' = [op |-> "AccessToken.save", token |-> token,
                        raised |-> "IntegrityError"]
    /\ UNCHANGED <<applications, grants, refresh_tokens, now, exchanged,
                   expired_seen, minted>>

\* issue_refresh_token: RefreshToken(access_token=...).save(), the INSERT
\* under the foreign key and the one-to-one constraint of access_token.
IssueRefreshToken(token, at_id) ==
    /\ next_pk.refresh_token <= MaxTokens
    /\ IF ~access_token_exists(at_id)
       THEN /\ UNCHANGED <<refresh_tokens, next_pk>>
            /\ last' = [op |-> "issue_refresh_token", access_token |-> at_id,
                        before |-> refresh_tokens, raised |-> "IntegrityError"]
       ELSE IF ~(access_token_unbound(at_id) /\ refresh_token_token_accepted(token))
       THEN /\ UNCHANGED <<refresh_tokens, next_pk>>
            /\ last' = [op |-> "issue_refresh_token", access_token |-> at_id,
                        before |-> refresh_tokens, raised |-> "RefreshTokenConflict"]
       ELSE /\ refresh_tokens' = refresh_tokens \cup
                   {[id |-> next_pk.refresh_token, token |-> token,
                     access_token |-> at_id]}
            /\ next_pk' = [next_pk EXCEPT !.refresh_token = @ + 1]
            /\ last' = [op |-> "issue_refresh_token", access_token |-> at_id,
                        before |-> refresh_tokens, raised |-> ""]
    /\ UNCHANGED <<applications, grants, access_tokens, now, exchanged,
                   expired_seen, minted>>

\* revoke(access_token): AccessToken.delete(), which deletes the rows that
\* cascade from it.
RevokeAccessToken(token) ==
    /\ token \in access_tokens
    /\ access_tokens' = access_tokens \ {token}
    /\ refresh_tokens' = refresh_tokens \ cascade(token)
    /\ last' = [op |-> "revoke_access_token", access_token |-> token.id,
                cascaded |-> cascade(token)]
    /\ UNCHANGED <<applications, grants, next_pk, now, exchanged, expired_seen, minted>>

\* revoke(refresh_token): RefreshToken.delete().
RevokeRefreshToken(token) ==
    /\ token \in refresh_tokens
    /\ refresh_tokens' = refresh_tokens \ {token}
    /\ last' = [op |-> "revoke_refresh_token", refresh_token |-> token.id]
    /\ UNCHANGED <<applications, grants, access_tokens, next_pk, now, exchanged,
                   expired_seen, minted>>

\* validate(access_token, scopes): false for a token that is not stored,
\* is_valid(scopes) otherwise.
Validate(at_id, scopes) ==
    /\ last' = [op |-> "validate", access_token |-> at_id,
                result |-> \E a \in access_tokens :
                               a.id = at_id /\ is_valid(a, scopes, now)]
    /\ UNCHANGED <<applications, grants, access_tokens, refresh_tokens, next_pk,
                   now, exchanged, expired_seen, minted>>

RefreshKeepingOld(token, new_token, new_refresh, ttl) ==
    LET found == {r \in refresh_tokens : r.token = token}
    IN  /\ IF found = {}
           THEN /\ last' = [op |-> "refresh", token |-> token, refresh_token |-> 0,
                            result |-> "RefreshTokenNotFound"]
                /\ UNCHANGED <<access_tokens, refresh_tokens, next_pk, minted>>
           ELSE /\ next_pk.access_token <= MaxTokens
                /\ next_pk.refresh_token <= MaxTokens
                /\ \E r \in found :
                     LET old == {a \in access_tokens : a.id = r.access_token}
                         dropped == UNION {cascade(a) : a \in old}
                         new == [id |-> next_pk.access_token, token |-> new_token,
                                 expires |-> now + ttl,
                                 scope |-> IF old = {} THEN <<>>
                                           ELSE (CHOOSE a \in old : TRUE).scope]
                     IN  /\ access_tokens' = access_tokens \cup {new}
                         /\ refresh_tokens' = refresh_tokens \cup
                               {[id |-> next_pk.refresh_token, token |-> new_refresh,
                                 access_token |-> new.id]}
                         /\ minted' = minted \cup
                               {[refresh_token |-> r.id, token |-> token, old |-> r.access_token,
                                 new |-> new.id, new_refresh |-> next_pk.refresh_token]}
                         /\ last' = [op |-> "refresh", token |-> token,
                                     refresh_token |-> r.id, result |-> "ok"]
                /\ next_pk' = [next_pk EXCEPT !.access_token = @ + 1,
                                              !.refresh_token = @ + 1]
        /\ UNCHANGED <<applications, grants, now, exchanged, expired_seen>>

\* refresh(refresh_token), one step of the store: look the token up, delete
\* the old AccessToken (its RefreshToken goes with it), insert the new
\* AccessToken of the same scope and the new RefreshToken bound to it.
Refresh(token, new_token, new_refresh, ttl) ==
    LET found == {r \in refresh_tokens : r.token = token}
    IN  /\ IF found = {}
           THEN /\ last' = [op |-> "refresh", token |-> token, refresh_token |-> 0,
                            result |-> "RefreshTokenNotFound"]
                /\ UNCHANGED <<access_tokens, refresh_tokens, next_pk, minted>>
           ELSE /\ next_pk.access_token <= MaxTokens
                /\ next_pk.refresh_token <= MaxTokens
                /\ \E r \in found :
                     LET old == {a \in access_tokens : a.id = r.access_token}
                         dropped == UNION {cascade(a) : a \in old}
                         new == [id |-> next_pk.access_token, token |-> new_token,
                                 expires |-> now + ttl,
                                 scope |-> IF old = {} THEN <<>>
                                           ELSE (CHOOSE a \in old : TRUE).scope]
                     IN  /\ access_tokens' = (access_tokens \ old) \cup {new}
                         /\ refresh_tokens' = (refresh_tokens \ dropped) \cup
                               {[id |-> next_pk.refresh_token, token |-> new_refresh,
                                 access_token |-> new.id]}
                         /\ minted' = minted \cup
                               {[refresh_token |-> r.id, token |-> token, old |-> r.access_token,
                                 new |-> new.id, new_refresh |-> next_pk.refresh_token]}
                         /\ last' = [op |-> "refresh", token |-> token,
                                     refresh_token |-> r.id, result |-> "ok"]
                /\ next_pk' = [next_pk EXCEPT !.access_token = @ + 1,
                                              !.refresh_token = @ + 1]
        /\ UNCHANGED <<applications, grants, now, exchanged, expired_seen>>

NextToken ==
    \/ \E t \in Tokens, ttl \in TTLs, s \in TokenScopes : CreateAccessToken(t, ttl, s)
    \/ \E t \in Tokens, a \in 1..MaxTokens : IssueRefreshToken(t, a)
    \/ \E a \in access_tokens : RevokeAccessToken(a)
    \/ \E r \in refresh_tokens : RevokeRefreshToken(r)
    \/ \E a \in 1..MaxTokens, s \in TokenRequests : Validate(a, s)
    \/ \E t \in Tokens, n \in Tokens, m \in Tokens, ttl \in TTLs : Refresh(t, n, m, ttl)

SpecToken == Init /\ [][NextToken]_vars

-----------------------------------------------------------------------------
(* What split() and rstrip("/") are to return, stated on the text itself *)

EndsWithSlash(s) == Len(s) > 0 /\ s[Len(s)] = Slash

\* s with one trailing slash removed, if it has one
StripOne(s) == IF EndsWithSlash(s) THEN SubSeq(s, 1, Len(s) - 1) ELSE s

\* the entries of a whitespace-separated text: its maximal runs without whitespace
Entries(s) ==
    {SubSeq(s, i, j) : <<i, j>> \in
        {p \in (1..Len(s)) \X (1..Len(s)) :
            /\ p[1] <= p[2]
            /\ \A k \in p[1]..p[2] : s[k] # Space
            /\ (p[1] = 1 \/ s[p[1] - 1] = Space)
            /\ (p[2] = Len(s) \/ s[p[2] + 1] = Space)}}

\* whole = stem followed by slashes only, and stem ends in no slash
StemOf(stem, whole) ==
    /\ ~EndsWithSlash(stem)
    /\ Len(stem) <= Len(whole)
    /\ SubSeq(whole, 1, Len(stem)) = stem
    /\ \A k \in (Len(stem) + 1)..Len(whole) : whole[k] = Slash

\* e is the first entry of the text: only whitespace comes before it and it
\* ends at the end of the text or at whitespace
IsFirstEntry(s, e) ==
    /\ Len(e) >= 1
    /\ \A k \in 1..Len(e) : e[k] # Space
    /\ \E i \in 1..Len(s) :
         /\ \A k \in 1..(i - 1) : s[k] = Space
         /\ i + Len(e) - 1 <= Len(s)
         /\ SubSeq(s, i, i + Len(e) - 1) = e
         /\ (i + Len(e) - 1 = Len(s) \/ s[i + Len(e)] = Space)

-----------------------------------------------------------------------------
(* C3 *)

\* C3 as stated: redirect_uri_allowed(app, uri) is true iff uri with a single
\* trailing slash stripped equals some registered entry, the entry being
\* stripped of a trailing slash too.
C3_SingleSlashBothSides ==
    last.op = "Application.redirect_uri_allowed" =>
        (last.result <=>
            \E e \in Entries(last.app.redirect_uris) : StripOne(last.uri) = StripOne(e))

\* C3 as the code has it: redirect_uri_allowed(app, uri) is true iff uri with
\* all its trailing slashes stripped equals some registered entry exactly as
\* stored; neither a prefix nor a stripped entry matches.
C3_AllSlashesStoredAsIs ==
    last.op = "Application.redirect_uri_allowed" =>
        (last.result <=>
            \E e \in Entries(last.app.redirect_uris) : StemOf(e, last.uri))

\* an entry registered without a slash allows the uri with a slash appended
C3_Witness ==
    /\ last.op = "Application.redirect_uri_allowed"
    /\ last.result
    /\ EndsWithSlash(last.uri)
    /\ last.app \in applications

-----------------------------------------------------------------------------
(* C4 *)

\* C4 as stated: the Grant check passes iff the presented uri with its
\* trailing slashes stripped equals the stored redirect_uri.
C4_PresentedIsStripped ==
    last.op = "Grant.redirect_uri_allowed" =>
        (last.result <=> rstrip(last.uri, Slash) = last.grant.redirect_uri)

\* C4 as the code has it: the Grant check passes iff the presented uri,
\* taken as it is, equals the stored redirect_uri with its trailing slashes
\* stripped.
C4_StoredIsStripped ==
    last.op = "Grant.redirect_uri_allowed" =>
        (last.result <=> StemOf(last.uri, last.grant.redirect_uri))

\* a grant stored with a trailing slash passes the uri presented without it
C4_Witness ==
    /\ last.op = "Grant.redirect_uri_allowed"
    /\ last.result
    /\ EndsWithSlash(last.grant.redirect_uri)
    /\ last.grant \in grants

-----------------------------------------------------------------------------
(* C5 *)

\* C5: is_valid(scopes) is true iff now < expires and the request is absent,
\* empty, or made only of scopes in the token's whitespace-split scope.
C5_IsValid ==
    last.op = "is_valid" =>
        (last.result <=>
            /\ now < last.token.expires
            /\ \/ ~last.scopes.given
               \/ last.scopes.list = <<>>
               \/ \A i \in 1..Len(last.scopes.list) :
                      last.scopes.list[i] \in Entries(last.token.scope))

\* at the expiry instant an empty request on a token is refused
C5_Witness ==
    /\ last.op = "is_valid"
    /\ now = last.token.expires
    /\ ~last.scopes.given
    /\ ~last.result

-----------------------------------------------------------------------------
(* C10 *)

\* C10 as stated: default_redirect_uri returns the first entry of the
\* whitespace-split list, the stored text unchanged, and raises NoRedirectURI
\* when the list is empty.
C10_NoRedirectURI ==
    last.op = "default_redirect_uri" =>
        /\ last.app \in applications
        /\ IF Entries(last.app.redirect_uris) = {}
           THEN last.outcome.raised = "NoRedirectURI"
           ELSE /\ last.outcome.raised = ""
                /\ IsFirstEntry(last.app.redirect_uris, last.outcome.value)

\* C10 as the code has it: the same, the error on an empty list being the
\* IndexError of list.pop.
C10_IndexError ==
    last.op = "default_redirect_uri" =>
        /\ last.app \in applications
        /\ IF Entries(last.app.redirect_uris) = {}
           THEN last.outcome.raised = "IndexError"
           ELSE /\ last.outcome.raised = ""
                /\ IsFirstEntry(last.app.redirect_uris, last.outcome.value)

\* a whitespace-only text has no first entry
C10_Witness ==
    /\ last.op = "default_redirect_uri"
    /\ last.app.redirect_uris # <<>>
    /\ Entries(last.app.redirect_uris) = {}
    /\ last.outcome.raised # ""

-----------------------------------------------------------------------------
(* C1 *)

-----------------------------------------------------------------------------
(* C6 *)

\* C6: no exchange succeeds at now >= expires or on a Grant without expires;
\* an exchange that finds a Grant with now >= expires is answered
\* GrantExpired; a Grant once reported expired is never exchanged.
C6_ExpiredNeverExchanged ==
    /\ last.op = "exchange" /\ last.result = "ok" =>
          last.grant.expires # None /\ now < last.grant.expires
    /\ last.op = "exchange" /\ last.grant # NoGrant =>
          (last.grant.expires # None /\ now >= last.grant.expires
              => last.result = "GrantExpired")
    /\ \A g \in BagToSet(exchanged) : g.expires # None /\ g.id \notin expired_seen

\* an exchange at the expiry instant itself, with the matching uri, is refused
C6_Witness ==
    /\ last.op = "exchange"
    /\ last.result = "GrantExpired"
    /\ now = last.grant.expires
    /\ Grant_redirect_uri_allowed(last.grant, last.uri)

-----------------------------------------------------------------------------
(* C9 *)

\* C9: no two Applications share a client_id, no two Grants a code, no two
\* AccessTokens a token and no two RefreshTokens a token.
C9_Unique ==
    /\ \A a, b \in applications : a.client_id = b.client_id => a = b
    /\ \A a, b \in grants : a.code = b.code => a = b
    /\ \A a, b \in access_tokens : a.token = b.token => a = b
    /\ \A a, b \in refresh_tokens : a.token = b.token => a = b

-----------------------------------------------------------------------------
(* C2 *)

\* the AccessTokens that descend from a RefreshToken: the one a refresh of
\* it minted, and those that descend from the RefreshToken minted with it
RECURSIVE Descendants(_)
Descendants(rt_id) ==
    LET ms == {m \in minted : m.refresh_token = rt_id}
    IN  {m.new : m \in ms} \cup
        UNION {Descendants(m.new_refresh) : m \in {x \in ms : x.new_refresh > rt_id}}

-----------------------------------------------------------------------------
(* C7 *)

\* C7: every stored RefreshToken refers to a stored AccessToken.
C7_NoOrphan ==
    \A r \in refresh_tokens : \E a \in access_tokens : a.id = r.access_token

\* an AccessToken with a bound RefreshToken was revoked
C7_Witness ==
    /\ last.op = "revoke_access_token"
    /\ last.cascaded # {}
    /\ last.access_token \notin Ids(access_tokens)

-----------------------------------------------------------------------------
(* C8 *)

\* C8: no two stored RefreshTokens refer to the same AccessToken, a
\* RefreshToken refers to at most one stored AccessToken, and
\* issue_refresh_token on an AccessToken that has a RefreshToken is answered
\* RefreshTokenConflict and leaves the RefreshToken rows as they were.
C8_OneToOne ==
    /\ \A r1, r2 \in refresh_tokens : r1.access_token = r2.access_token => r1 = r2
    /\ \A r \in refresh_tokens :
          Cardinality({a \in access_tokens : a.id = r.access_token}) <= 1
    /\ last.op = "issue_refresh_token" =>
          ((\E r \in last.before : r.access_token = last.access_token) =>
              last.raised = "RefreshTokenConflict" /\ refresh_tokens = last.before)

\* a second RefreshToken for a bound AccessToken was refused
C8_Witness ==
    /\ last.op = "issue_refresh_token"
    /\ last.raised = "RefreshTokenConflict"
    /\ \E r \in refresh_tokens : r.access_token = last.access_token

====
